---- MODULE Spec2Model ----
(***************************************************************************)
(* A model of pycliques2: the clique-graph transform (cliques.py), its     *)
(* coaffination-aware variant and the coaffination filter                  *)
(* (coaffinations.py), and the dismantlability reduction (dominated.py).   *)
(*                                                                         *)
(* A graph is a record [nodes, edges]: nodes is the sequence of vertices   *)
(* in the graph's iteration order (networkx iterates in insertion order),  *)
(* edges is a set of two-element vertex sets.                              *)
(***************************************************************************)
EXTENDS Integers, Sequences, FiniteSets, TLC

\* Largest number of vertices of an input graph.
MaxV == 4
\* Finite bounds passed to clique_graph range over -MaxNegBound..MaxBound.
MaxNegBound == 1
MaxBound == 4
\* Minimum distances passed to coaffinations range over 0..MaxK.
MaxK == 2

VARIABLES
    graph,              \* the input graph of the call
    op,                 \* the API function that was called
    pc,                 \* the control point of the running call
    bound,              \* clique_graph: the bound argument
    sigma,              \* CoaffinePair.coaffination of the input pair
    it_cliques,         \* clique_graph: what the lazy enumeration still holds
    cliques,            \* clique_graph: the accumulator list
    k,                  \* coaffinations: the minimum distance
    the_automorphisms,  \* coaffinations: what the enumeration still holds
    yielded,            \* coaffinations: the mappings yielded so far
    distance,           \* coaffinations: the shortest-path lengths
    g1,                 \* the loops of dominated.py: the current graph
    pi,                 \* pared_index: the counter
    ret                 \* the value returned (or the exception raised)

vars == <<graph, op, pc, bound, sigma, it_cliques, cliques, k,
          the_automorphisms, yielded, distance, g1, pi, ret>>

----------------------------------------------------------------------------
(* Sequences and sets *)

Range(s) == {s[i] : i \in 1..Len(s)}

Injective(s) == \A i, j \in 1..Len(s) : s[i] = s[j] => i = j

\* The position of x in the sequence s (x occurs in s).
IndexOf(s, x) == CHOOSE i \in 1..Len(s) : s[i] = x

\* s without its members outside S, order kept.
RECURSIVE Filter(_, _)
Filter(s, S) ==
    IF s = <<>> THEN <<>>
    ELSE (IF Head(s) \in S THEN <<Head(s)>> ELSE <<>>) \o Filter(Tail(s), S)

MinOf(S) == CHOOSE x \in S : \A y \in S : x <= y

\* sorted(S): the members of a set of integers in ascending order.
RECURSIVE sorted(_)
sorted(S) ==
    IF S = {} THEN <<>> ELSE <<MinOf(S)>> \o sorted(S \ {MinOf(S)})

----------------------------------------------------------------------------
(* Graphs *)

order(G) == Len(G.nodes)

V(G) == Range(G.nodes)

\* graph[v]: the neighbours of v.
Adj(G, v) == {u \in V(G) : u /= v /\ {u, v} \in G.edges}

EmptyGraph == [nodes |-> <<>>, edges |-> {}]

Pairs(S) == {{u, v} : u, v \in S} \ {{u} : u \in S}

Perms(n) == {s \in [1..n -> 0..(n - 1)] : Injective(s)}

\* The vertices 0..n-1 in ascending order, as the networkx generators
\* insert them.
AscendingOrder(n) == [i \in 1..n |-> i - 1]

----------------------------------------------------------------------------
(* cliques.py *)

\* nx.find_cliques: the maximal cliques, one by one (Bron-Kerbosch).  R is the
\* clique being grown, P the candidates, X the vertices already tried.
RECURSIVE BronKerbosch(_, _, _, _)
BronKerbosch(G, R, P, X) ==
    IF P = {} THEN (IF X = {} THEN <<R>> ELSE <<>>)
    ELSE LET v == MinOf(P)
         IN  BronKerbosch(G, R \cup {v}, P \cap Adj(G, v), X \cap Adj(G, v))
             \o BronKerbosch(G, R, P \ {v}, X \cup {v})

find_cliques(G) ==
    IF order(G) = 0 THEN <<>> ELSE BronKerbosch(G, {}, V(G), {})

Inf == [fin |-> FALSE, val |-> 0]

Finite(b) == [fin |-> TRUE, val |-> b]

Bounds == {Inf} \cup {Finite(b) : b \in (0 - MaxNegBound)..MaxBound}

\* len(cliques) > bound
ExceedsBound(len, b) == b.fin /\ len > b.val

\* K.add_nodes_from(cliques): a node already present is not added again.
RECURSIVE add_nodes_from(_, _)
add_nodes_from(nodes, new) ==
    IF new = <<>> THEN nodes
    ELSE add_nodes_from(IF Head(new) \in Range(nodes) THEN nodes
                        ELSE Append(nodes, Head(new)), Tail(new))

\* IntersectingPairs with c1 | c2 written for c1 & c2: no pair is filtered out.
IntersectingPairs_Union(cs) ==
    {{cs[i], cs[j]} : <<i, j>> \in
        {p \in (1..Len(cs)) \X (1..Len(cs)) :
            p[1] < p[2] /\ cs[p[1]] \cup cs[p[2]] /= {}}}

\* itertools.combinations(cliques, 2) filtered by c1 & c2.
IntersectingPairs(cs) ==
    {{cs[i], cs[j]} : <<i, j>> \in
        {p \in (1..Len(cs)) \X (1..Len(cs)) :
            p[1] < p[2] /\ cs[p[1]] \cap cs[p[2]] /= {}}}

\* The clique graph built from the accumulated cliques (cliques.py 79-82).
BuildK(cs) ==
    [tag |-> "graph", nodes |-> add_nodes_from(<<>>, cs),
     edges |-> IntersectingPairs(cs)]

NoneRet == [tag |-> "None"]

Pending == [tag |-> "pending"]

----------------------------------------------------------------------------
(* coaffinations.py *)

\* GraphMatcher(graph, graph): m holds the images of the first Len(m) nodes;
\* c may be the image of the next node when it is unused and the adjacencies
\* to the nodes matched so far agree.
Feasible(G, m, c) ==
    /\ c \notin Range(m)
    /\ \A i \in 1..Len(m) :
          ({G.nodes[i], G.nodes[Len(m) + 1]} \in G.edges) <=> ({m[i], c} \in G.edges)

RECURSIVE Matchings(_, _)
RECURSIVE TryCandidates(_, _, _)
Matchings(G, m) ==
    IF Len(m) = order(G) THEN <<m>> ELSE TryCandidates(G, m, 1)

TryCandidates(G, m, j) ==
    IF j > order(G) THEN <<>>
    ELSE (IF Feasible(G, m, G.nodes[j])
          THEN Matchings(G, Append(m, G.nodes[j])) ELSE <<>>)
         \o TryCandidates(G, m, j + 1)

\* automorphisms(graph): every automorphism as a dict, in the matcher's order.
automorphisms(G) ==
    LET ms == Matchings(G, <<>>)
    IN  [i \in 1..Len(ms) |-> [v \in V(G) |-> ms[i][IndexOf(G.nodes, v)]]]

\* Breadth-first layers from a frontier.
RECURSIVE Layers(_, _, _)
Layers(G, seen, frontier) ==
    IF frontier = {} THEN <<>>
    ELSE LET reached == seen \cup frontier
         IN  <<frontier>>
             \o Layers(G, reached, (UNION {Adj(G, u) : u \in frontier}) \ reached)

\* dict(nx.all_pairs_shortest_path_length(graph)): distance[v] has a key for
\* each vertex reachable from v and for no other vertex.
all_pairs_shortest_path_length(G) ==
    [v \in V(G) |->
        LET L == Layers(G, {}, {v})
        IN  [u \in UNION Range(L) |-> (CHOOSE i \in 1..Len(L) : u \in L[i]) - 1]]

\* The inner for loop of coaffinations over graph.nodes[i..]: lines 138-142.
RECURSIVE ScanVertices(_, _, _, _, _)
ScanVertices(G, dist, auto, kk, i) ==
    IF i > order(G) THEN "yield"
    ELSE LET v == G.nodes[i]
         IN  IF auto[v] \notin DOMAIN dist[v] THEN "KeyError"
             ELSE IF dist[v][auto[v]] < kk THEN "break"
             ELSE ScanVertices(G, dist, auto, kk, i + 1)

\* InducedMap that applies sigma only to the members whose image stays in q,
\* and keeps the others.
InducedMap_Partial(kg, sg) ==
    [q \in Range(kg.nodes) |-> {IF sg[x] \in q THEN sg[x] ELSE x : x \in q}]

\* The mapping built by the CoaffinePair variant: coaffinations.py 71-73.
InducedMap(kg, sg) ==
    [q \in Range(kg.nodes) |-> {sg[x] : x \in q}]

----------------------------------------------------------------------------
(* dominated.py *)

closed_neighborhood(G, v) == Adj(G, v) \cup {v}

dominates(G, v, w) == closed_neighborhood(G, w) \subseteq closed_neighborhood(G, v)

\* The scan of is_dominated_vertex from position i: the first u /= v that
\* dominates v, if any.
RECURSIVE DominatorScan(_, _, _)
DominatorScan(G, v, i) ==
    IF i > order(G) THEN [found |-> FALSE, u |-> v]
    ELSE IF G.nodes[i] /= v /\ dominates(G, G.nodes[i], v)
         THEN [found |-> TRUE, u |-> G.nodes[i]]
         ELSE DominatorScan(G, v, i + 1)

\* is_dominated_vertex(graph, v)
is_dominated_vertex(G, v) == DominatorScan(G, v, 1).found

\* is_dominated_vertex(graph, v, return_dominator=True): (True, u) or False.
is_dominated_vertex_rd(G, v) == DominatorScan(G, v, 1)

\* find_dominated_vertex from position i; None is [found |-> FALSE].
RECURSIVE FindScan(_, _)
FindScan(G, i) ==
    IF i > order(G) THEN [found |-> FALSE, v |-> 0]
    ELSE IF is_dominated_vertex(G, G.nodes[i])
         THEN [found |-> TRUE, v |-> G.nodes[i]]
         ELSE FindScan(G, i + 1)

find_dominated_vertex(G) == FindScan(G, 1)

\* g.remove_node(x): x and its edges go, the order of the others stays.
remove_node(G, x) ==
    [nodes |-> Filter(G.nodes, V(G) \ {x}),
     edges |-> {e \in G.edges : x \notin e}]

\* remove_dominated_vertex testing "if not x" for "if x is None": the
\* dominated vertex 0 is taken for no vertex.
remove_dominated_vertex_Truthy(G) ==
    LET x == find_dominated_vertex(G)
    IN  IF ~x.found \/ x.v = 0 THEN G ELSE remove_node(G, x.v)

remove_dominated_vertex(G) ==
    LET x == find_dominated_vertex(G)
    IN  IF ~x.found THEN G ELSE remove_node(G, x.v)

\* twin_classes: the dict neighborhoods as a list of entries in insertion
\* order, after the vertices graph.nodes[i..] are added.
RECURSIVE TwinScan(_, _, _)
TwinScan(G, i, neighborhoods) ==
    IF i > order(G) THEN neighborhoods
    ELSE LET v == G.nodes[i]
             nb_signature == sorted(closed_neighborhood(G, v))
             present == {j \in 1..Len(neighborhoods) :
                            neighborhoods[j].key = nb_signature}
         IN  TwinScan(G, i + 1,
                 IF present = {}
                 THEN Append(neighborhoods, [key |-> nb_signature, val |-> <<v>>])
                 ELSE [j \in 1..Len(neighborhoods) |->
                         IF j \in present
                         THEN [key |-> nb_signature,
                               val |-> Append(neighborhoods[j].val, v)]
                         ELSE neighborhoods[j]])

\* twin_classes assigning [v] to the entry where it should append v.
twin_classes_Overwrite(G) ==
    LET neighborhoods == TwinScan(G, 1, <<>>)
    IN  [j \in 1..Len(neighborhoods) |->
            <<neighborhoods[j].val[Len(neighborhoods[j].val)]>>]

twin_classes(G) ==
    LET neighborhoods == TwinScan(G, 1, <<>>)
    IN  [j \in 1..Len(neighborhoods) |-> neighborhoods[j].val]

\* The body of the for loop of pared_graph: is the representative kept?
\* pared_graph keeping the representative of every twin class, dominated or
\* not: only twins are merged.
KeepsRepresentative_KeepsAll(G, vertex) == TRUE

KeepsRepresentative(G, vertex) ==
    IF ~is_dominated_vertex(G, vertex) THEN TRUE
    ELSE LET dom_info == is_dominated_vertex_rd(G, vertex)
         IN  IF dom_info.found
             THEN closed_neighborhood(G, vertex) = closed_neighborhood(G, dom_info.u)
             ELSE TRUE

RECURSIVE KeepScan(_, _, _)
KeepScan(G, reps, i) ==
    IF i > Len(reps) THEN <<>>
    ELSE (IF KeepsRepresentative(G, reps[i]) THEN <<reps[i]>> ELSE <<>>)
         \o KeepScan(G, reps, i + 1)

\* graph.subgraph(nodes).copy(): the induced subgraph.  networkx iterates the
\* kept nodes in the order of the graph, unless they are fewer than half of
\* the graph's nodes: then it iterates set(nodes), which for a few small
\* non-negative integers (here at most two, below 8) is ascending.
subgraph_copy(G, nodes) ==
    LET S == Range(nodes) \cap V(G)
    IN  [nodes |-> IF 2 * Cardinality(S) < order(G) THEN sorted(S)
                   ELSE Filter(G.nodes, S),
         edges |-> {e \in G.edges : e \subseteq S}]

pared_graph(G) ==
    LET twins == twin_classes(G)
        reps == [j \in 1..Len(twins) |-> twins[j][1]]
        nodes_to_keep == KeepScan(G, reps, 1)
    IN  subgraph_copy(G, nodes_to_keep)

\* completely_pared_graph as a function of its argument (the loop, unrolled).
RECURSIVE completely_pared_graph(_)
completely_pared_graph(G) ==
    LET g == remove_dominated_vertex(G)
    IN  IF order(G) = order(g) THEN g ELSE completely_pared_graph(g)

----------------------------------------------------------------------------
(* The calls *)

Idle ==
    /\ op = "none"
    /\ pc = "idle"
    /\ bound = Inf
    /\ sigma = <<>>
    /\ it_cliques = <<>>
    /\ cliques = <<>>
    /\ k = 0
    /\ the_automorphisms = <<>>
    /\ yielded = <<>>
    /\ distance = <<>>
    /\ g1 = EmptyGraph
    /\ pi = 0
    /\ ret = Pending

\* The input is any simple graph on the vertices 0..n-1, n <= MaxV, in any
\* iteration order.
Init ==
    /\ \E n \in 0..MaxV : \E s \in Perms(n) : \E E \in SUBSET Pairs(0..(n - 1)) :
          graph = [nodes |-> s, edges |-> E]
    /\ Idle

\* clique_graph(graph, bound=b): cliques.py 68-70.
CallCliqueGraph ==
    /\ pc = "idle"
    /\ \E b \in Bounds : bound' = b
    /\ op' = "clique_graph"
    /\ pc' = "cg_loop"
    /\ it_cliques' = find_cliques(graph)
    /\ cliques' = <<>>
    /\ UNCHANGED <<graph, sigma, k, the_automorphisms, yielded, distance, g1, pi, ret>>

\* clique_graph(CoaffinePair(graph, s), bound=b): coaffinations.py 65-68,
\* entering the generic clique_graph on pair.graph.
CallCliqueGraphPair ==
    /\ pc = "idle"
    /\ \E b \in Bounds : bound' = b
    /\ \E i \in DOMAIN automorphisms(graph) : sigma' = automorphisms(graph)[i]
    /\ op' = "clique_graph_pair"
    /\ pc' = "cg_loop"
    /\ it_cliques' = find_cliques(graph)
    /\ cliques' = <<>>
    /\ UNCHANGED <<graph, k, the_automorphisms, yielded, distance, g1, pi, ret>>

\* The while loop with the test of the bound moved behind the loop: every
\* clique is pulled before len(cliques) is compared with bound.
CliqueGraphNext_Drains ==
    /\ pc = "cg_loop"
    /\ it_cliques /= <<>>
    /\ it_cliques' = <<>>
    /\ cliques' = cliques \o it_cliques
    /\ IF ExceedsBound(Len(cliques'), bound)
       THEN pc' = "cg_ret" /\ ret' = NoneRet
       ELSE pc' = "cg_loop" /\ ret' = ret
    /\ UNCHANGED <<graph, op, bound, sigma, k, the_automorphisms, yielded,
                   distance, g1, pi>>

\* One pass of the while loop that gets a clique: cliques.py 72-76.
CliqueGraphNext ==
    /\ pc = "cg_loop"
    /\ it_cliques /= <<>>
    /\ it_cliques' = Tail(it_cliques)
    /\ cliques' = Append(cliques, Head(it_cliques))
    /\ IF ExceedsBound(Len(cliques'), bound)
       THEN pc' = "cg_ret" /\ ret' = NoneRet
       ELSE pc' = "cg_loop" /\ ret' = ret
    /\ UNCHANGED <<graph, op, bound, sigma, k, the_automorphisms, yielded,
                   distance, g1, pi>>

\* StopIteration, then the construction of K: cliques.py 77-82.
CliqueGraphBuild ==
    /\ pc = "cg_loop"
    /\ it_cliques = <<>>
    /\ ret' = BuildK(cliques)
    /\ pc' = "cg_ret"
    /\ UNCHANGED <<graph, op, bound, sigma, it_cliques, cliques, k,
                   the_automorphisms, yielded, distance, g1, pi>>

\* The CoaffinePair variant after the generic call: coaffinations.py 69-74.
CliqueGraphPairFinish ==
    /\ pc = "cg_ret"
    /\ op = "clique_graph_pair"
    /\ ret' = IF ret.tag = "None" THEN NoneRet
              ELSE [tag |-> "pair", graph |-> ret,
                    coaffination |-> InducedMap(ret, sigma)]
    /\ pc' = "done"
    /\ UNCHANGED <<graph, op, bound, sigma, it_cliques, cliques, k,
                   the_automorphisms, yielded, distance, g1, pi>>

\* coaffinations(graph, kk), up to the outer for loop: lines 135-136.
CallCoaffinations ==
    /\ pc = "idle"
    /\ \E kk \in 0..MaxK : k' = kk
    /\ op' = "coaffinations"
    /\ pc' = "coaf_loop"
    /\ the_automorphisms' = automorphisms(graph)
    /\ distance' = all_pairs_shortest_path_length(graph)
    /\ yielded' = <<>>
    /\ UNCHANGED <<graph, bound, sigma, it_cliques, cliques, g1, pi, ret>>

\* One automorphism goes through the inner loop: lines 137-142.
CoaffinationsNext ==
    /\ pc = "coaf_loop"
    /\ the_automorphisms /= <<>>
    /\ LET auto == Head(the_automorphisms)
           outcome == ScanVertices(graph, distance, auto, k, 1)
       IN  /\ the_automorphisms' = Tail(the_automorphisms)
           /\ yielded' = IF outcome = "yield" THEN Append(yielded, auto) ELSE yielded
           /\ IF outcome = "KeyError"
              THEN pc' = "raised" /\ ret' = [tag |-> "KeyError"]
              ELSE pc' = "coaf_loop" /\ ret' = ret
    /\ UNCHANGED <<graph, op, bound, sigma, it_cliques, cliques, k, distance, g1, pi>>

\* The automorphisms are exhausted: the generator stops.
CoaffinationsStop ==
    /\ pc = "coaf_loop"
    /\ the_automorphisms = <<>>
    /\ pc' = "done"
    /\ ret' = [tag |-> "list", val |-> yielded]
    /\ UNCHANGED <<graph, op, bound, sigma, it_cliques, cliques, k,
                   the_automorphisms, yielded, distance, g1, pi>>

\* twin_classes(graph)
CallTwinClasses ==
    /\ pc = "idle"
    /\ op' = "twin_classes"
    /\ ret' = [tag |-> "classes", val |-> twin_classes(graph)]
    /\ pc' = "done"
    /\ UNCHANGED <<graph, bound, sigma, it_cliques, cliques, k,
                   the_automorphisms, yielded, distance, g1, pi>>

\* pared_graph(graph)
CallParedGraph ==
    /\ pc = "idle"
    /\ op' = "pared_graph"
    /\ ret' = [tag |-> "graph"] @@ pared_graph(graph)
    /\ pc' = "done"
    /\ UNCHANGED <<graph, bound, sigma, it_cliques, cliques, k,
                   the_automorphisms, yielded, distance, g1, pi>>

\* pared_index(graph, return_cp=True): lines 193-194.
CallParedIndex ==
    /\ pc = "idle"
    /\ op' = "pared_index"
    /\ pi' = 0
    /\ g1' = graph
    /\ pc' = "pi_loop"
    /\ UNCHANGED <<graph, bound, sigma, it_cliques, cliques, k,
                   the_automorphisms, yielded, distance, ret>>

\* ParedIndexStep counting every pass, the last one too.
ParedIndexStep_CountsEveryPass ==
    /\ pc = "pi_loop"
    /\ LET n == order(g1)
       IN  /\ g1' = pared_graph(g1)
           /\ pi' = pi + 1
           /\ IF n /= order(g1')
              THEN pc' = "pi_loop" /\ ret' = ret
              ELSE pc' = "done" /\ ret' = [tag |-> "index", pi |-> pi', g |-> g1']
    /\ UNCHANGED <<graph, op, bound, sigma, it_cliques, cliques, k,
                   the_automorphisms, yielded, distance>>

\* One pass of the while loop of pared_index: lines 196-204.
ParedIndexStep ==
    /\ pc = "pi_loop"
    /\ LET n == order(g1)
       IN  /\ g1' = pared_graph(g1)
           /\ IF n /= order(g1')
              THEN pi' = pi + 1 /\ pc' = "pi_loop" /\ ret' = ret
              ELSE pi' = pi /\ pc' = "done"
                   /\ ret' = [tag |-> "index", pi |-> pi, g |-> g1']
    /\ UNCHANGED <<graph, op, bound, sigma, it_cliques, cliques, k,
                   the_automorphisms, yielded, distance>>

\* completely_pared_graph(graph), called by is_dismantlable: line 217.
CallIsDismantlable ==
    /\ pc = "idle"
    /\ op' = "is_dismantlable"
    /\ g1' = graph
    /\ pc' = "cp_loop"
    /\ UNCHANGED <<graph, bound, sigma, it_cliques, cliques, k,
                   the_automorphisms, yielded, distance, pi, ret>>

\* CompletelyParedStep returning when the order changed, not when it stayed.
CompletelyParedStep_StopsOnChange ==
    /\ pc = "cp_loop"
    /\ LET n == order(g1)
       IN  /\ g1' = remove_dominated_vertex(g1)
           /\ pc' = IF n /= order(g1') THEN "cp_ret" ELSE "cp_loop"
    /\ UNCHANGED <<graph, op, bound, sigma, it_cliques, cliques, k,
                   the_automorphisms, yielded, distance, pi, ret>>

\* One pass of the while loop of completely_pared_graph: lines 219-222.
CompletelyParedStep ==
    /\ pc = "cp_loop"
    /\ LET n == order(g1)
       IN  /\ g1' = remove_dominated_vertex(g1)
           /\ pc' = IF n = order(g1') THEN "cp_ret" ELSE "cp_loop"
    /\ UNCHANGED <<graph, op, bound, sigma, it_cliques, cliques, k,
                   the_automorphisms, yielded, distance, pi, ret>>

\* IsDismantlableReturn testing order() <= 1 for order() == 1.
IsDismantlableReturn_AtMostOne ==
    /\ pc = "cp_ret"
    /\ ret' = [tag |-> "bool", val |-> (order(g1) <= 1)]
    /\ pc' = "done"
    /\ UNCHANGED <<graph, op, bound, sigma, it_cliques, cliques, k,
                   the_automorphisms, yielded, distance, g1, pi>>

\* is_dismantlable on the graph completely_pared_graph returned: line 237.
IsDismantlableReturn ==
    /\ pc = "cp_ret"
    /\ ret' = [tag |-> "bool", val |-> (order(g1) = 1)]
    /\ pc' = "done"
    /\ UNCHANGED <<graph, op, bound, sigma, it_cliques, cliques, k,
                   the_automorphisms, yielded, distance, g1, pi>>

\* remove_dominated_vertex with g1 = graph written for g1 = graph.copy():
\* remove_node changes the caller's graph.
CallRemoveDominatedVertex_Alias ==
    /\ pc = "idle"
    /\ op' = "remove_dominated_vertex"
    /\ g1' = remove_dominated_vertex(graph)
    /\ graph' = g1'
    /\ ret' = [tag |-> "graph"] @@ g1'
    /\ pc' = "done"
    /\ UNCHANGED <<bound, sigma, it_cliques, cliques, k,
                   the_automorphisms, yielded, distance, pi>>

\* remove_dominated_vertex(graph): lines 99-107.  g1 is a copy, so that
\* remove_node changes g1 and leaves the caller's graph as it is.
CallRemoveDominatedVertex ==
    /\ pc = "idle"
    /\ op' = "remove_dominated_vertex"
    /\ g1' = remove_dominated_vertex(graph)
    /\ graph' = graph
    /\ ret' = [tag |-> "graph"] @@ g1'
    /\ pc' = "done"
    /\ UNCHANGED <<bound, sigma, it_cliques, cliques, k,
                   the_automorphisms, yielded, distance, pi>>

\* Dismantling in an iteration order that is not fixed: the start.
CallDismantleAnyOrder ==
    /\ pc = "idle"
    /\ op' = "dismantle_any_order"
    /\ g1' = graph
    /\ pc' = "any_loop"
    /\ UNCHANGED <<graph, bound, sigma, it_cliques, cliques, k,
                   the_automorphisms, yielded, distance, pi, ret>>

\* remove_dominated_vertex when the iteration order is not fixed: any
\* dominated vertex can be the first one met.
RemoveAnyDominatedVertex ==
    /\ pc = "any_loop"
    /\ \E x \in V(g1) :
          /\ is_dominated_vertex(g1, x)
          /\ g1' = remove_node(g1, x)
    /\ UNCHANGED <<graph, op, pc, bound, sigma, it_cliques, cliques, k,
                   the_automorphisms, yielded, distance, pi, ret>>

NextCliques ==
    \/ CallCliqueGraph
    \/ CallCliqueGraphPair
    \/ CliqueGraphNext
    \/ CliqueGraphBuild
    \/ CliqueGraphPairFinish

NextCoaffinations ==
    \/ CallCoaffinations
    \/ CoaffinationsNext
    \/ CoaffinationsStop

NextPared ==
    \/ CallTwinClasses
    \/ CallParedGraph
    \/ CallParedIndex
    \/ ParedIndexStep

NextParedIndex ==
    \/ CallParedIndex
    \/ ParedIndexStep

NextCompletelyPared ==
    \/ CallIsDismantlable
    \/ CompletelyParedStep
    \/ IsDismantlableReturn

NextAnyOrder ==
    \/ CallDismantleAnyOrder
    \/ RemoveAnyDominatedVertex

NextRemoveDominated == CallRemoveDominatedVertex

Next ==
    \/ NextRemoveDominated
    \/ NextCliques
    \/ NextCoaffinations
    \/ NextPared
    \/ NextCompletelyPared
    \/ NextAnyOrder

Spec == Init /\ [][Next]_vars

\* The input is a graph whose vertices were inserted in ascending order.
\* clique_graph, remove_dominated_vertex and the loops over it read a graph
\* through its iteration order and its adjacency only, never through the
\* vertices' values, so every graph of Init is a relabelling of one of these
\* and they behave alike.
InitAscending ==
    /\ \E n \in 0..MaxV : \E E \in SUBSET Pairs(0..(n - 1)) :
          graph = [nodes |-> AscendingOrder(n), edges |-> E]
    /\ Idle

\* The calls of clique_graph alone.
CliqueSpec == InitAscending /\ [][NextCliques]_vars

\* The calls of coaffinations alone.
CoaffinationsSpec == Init /\ [][NextCoaffinations]_vars

\* The calls of twin_classes, pared_graph and pared_index alone.
ParedSpec == Init /\ [][NextPared]_vars

\* The calls of is_dismantlable alone; the loop of completely_pared_graph,
\* once entered, runs on to its return.
CompletelyParedSpec ==
    InitAscending /\ [][NextCompletelyPared]_vars /\ WF_vars(CompletelyParedStep)

\* The calls of pared_index alone, on every graph in every iteration order.
ParedIndexSpec == Init /\ [][NextParedIndex]_vars

\* The calls of remove_dominated_vertex alone.
RemoveDominatedSpec == Init /\ [][NextRemoveDominated]_vars

\* Dismantling in every possible order, alone.
AnyOrderSpec == InitAscending /\ [][NextAnyOrder]_vars

----------------------------------------------------------------------------
(* What the properties speak of *)

IsClique(G, S) ==
    S /= {} /\ S \subseteq V(G) /\ \A u, v \in S : u /= v => {u, v} \in G.edges

\* The maximal cliques of G, by definition.
MaximalCliques(G) ==
    {S \in SUBSET V(G) :
        IsClique(G, S) /\ \A w \in V(G) \ S : ~IsClique(G, S \cup {w})}

\* K is the clique graph of G: its vertices are the maximal cliques of G, each
\* once, and two of them are adjacent iff they are distinct and intersect.
IsCliqueGraphOf(K, G) ==
    /\ Range(K.nodes) = MaximalCliques(G)
    /\ Len(K.nodes) = Cardinality(MaximalCliques(G))
    /\ K.edges = {{c1, c2} : <<c1, c2>> \in
                    {p \in Range(K.nodes) \X Range(K.nodes) :
                        p[1] /= p[2] /\ p[1] \cap p[2] /= {}}}

----------------------------------------------------------------------------
(* C1 *)

\* C1: clique_graph(G) with no bound returns a graph whose vertices are
\* exactly the maximal cliques of G, one vertex per clique, two distinct
\* vertices being adjacent iff the two cliques share a vertex of G.
C1_CliqueGraphOfG ==
    (op = "clique_graph" /\ pc = "cg_ret" /\ ~bound.fin) =>
        (ret.tag = "graph" /\ IsCliqueGraphOf(ret, graph))

\* A clique graph with adjacent and with non-adjacent cliques was returned.
C1_Witness ==
    /\ op = "clique_graph" /\ pc = "cg_ret" /\ ~bound.fin
    /\ ret.tag = "graph"
    /\ ret.edges /= {}
    /\ \E c1, c2 \in Range(ret.nodes) : c1 /= c2 /\ c1 \cap c2 = {}

----------------------------------------------------------------------------
(* C2 *)

\* C2: for every graph G, the zero-vertex graph too, and every integer b,
\* clique_graph(G, bound=b) returns None iff G has more than b maximal
\* cliques, and otherwise the graph clique_graph(G) returns.
C2_AbortsIffCountExceedsBound ==
    (op = "clique_graph" /\ pc = "cg_ret" /\ bound.fin) =>
        /\ (ret.tag = "None") <=> (Cardinality(MaximalCliques(graph)) > bound.val)
        /\ ret.tag /= "None" => (ret.tag = "graph" /\ IsCliqueGraphOf(ret, graph))

----------------------------------------------------------------------------
(* C3 *)

IsAutomorphism(f, nodes, edges) ==
    /\ DOMAIN f = nodes
    /\ {f[x] : x \in nodes} = nodes
    /\ \A x, y \in nodes : f[x] = f[y] => x = y
    /\ \A x, y \in nodes : x /= y => (({x, y} \in edges) <=> ({f[x], f[y]} \in edges))

\* C3: for an automorphism sigma of G, clique_graph(CoaffinePair(G, sigma)),
\* when it does not abort, returns a pair whose graph is the clique graph of
\* G and whose mapping sends each clique q to {sigma(x) : x in q}; the keys
\* of the mapping are the vertices of the clique graph, every image is one
\* of them, and the mapping is an automorphism of the clique graph.
C3_InducedMapIsAutomorphism ==
    (op = "clique_graph_pair" /\ pc = "done" /\ ret.tag /= "None") =>
        /\ ret.tag = "pair"
        /\ IsCliqueGraphOf(ret.graph, graph)
        /\ DOMAIN ret.coaffination = Range(ret.graph.nodes)
        /\ \A q \in Range(ret.graph.nodes) :
              /\ ret.coaffination[q] = {sigma[x] : x \in q}
              /\ ret.coaffination[q] \in Range(ret.graph.nodes)
        /\ IsAutomorphism(ret.coaffination, Range(ret.graph.nodes), ret.graph.edges)

\* A pair was returned whose mapping moves a clique, over a clique graph with
\* adjacent and with non-adjacent cliques.
C3_Witness ==
    /\ op = "clique_graph_pair" /\ pc = "done" /\ ret.tag = "pair"
    /\ ret.graph.edges /= {}
    /\ \E c1, c2 \in Range(ret.graph.nodes) : c1 /= c2 /\ c1 \cap c2 = {}
    /\ \E q \in Range(ret.graph.nodes) : ret.coaffination[q] /= q

----------------------------------------------------------------------------
(* C4 *)

\* The vertices at distance at most r from u.
RECURSIVE Ball(_, _, _)
Ball(G, u, r) ==
    IF r < 0 THEN {}
    ELSE IF r = 0 THEN {u}
    ELSE LET B == Ball(G, u, r - 1)
         IN  B \cup UNION {Adj(G, w) : w \in B}

\* distance(u, v) >= kk, the distance between two components being infinite.
DistanceAtLeast(G, u, v, kk) == v \notin Ball(G, u, kk - 1)

Qualifies(G, auto, kk) == \A v \in V(G) : DistanceAtLeast(G, v, auto[v], kk)

\* C4: for every graph G, connected or not, and every k, coaffinations(G, k)
\* yields an automorphism iff every vertex v has distance(v, mapping[v]) >= k,
\* a pair of vertices in different components being infinitely far apart; no
\* lookup fails on such a pair.
C4_YieldsIffFarEnough ==
    op = "coaffinations" =>
        /\ pc /= "raised"
        /\ LET all == automorphisms(graph)
           IN  \A i \in 1..(Len(all) - Len(the_automorphisms)) :
                   (all[i] \in Range(yielded)) <=> Qualifies(graph, all[i], k)

----------------------------------------------------------------------------
(* C5 *)

\* The first member, in iteration order, of each twin class of G.
Representatives(G) ==
    {G.nodes[i] : i \in {i \in 1..order(G) :
        \A j \in 1..(i - 1) :
            closed_neighborhood(G, G.nodes[j]) /= closed_neighborhood(G, G.nodes[i])}}

\* v is dominated by a vertex outside its own twin class.
DominatedFromOutside(G, v) ==
    \E u \in V(G) :
        /\ closed_neighborhood(G, u) /= closed_neighborhood(G, v)
        /\ closed_neighborhood(G, v) \subseteq closed_neighborhood(G, u)

\* C5: pared_graph(G) is the subgraph of G induced on exactly the twin-class
\* representatives that no vertex outside their own twin class dominates.
C5_ParedGraphKeepsUndominatedRepresentatives ==
    (op = "pared_graph" /\ pc = "done") =>
        /\ Range(ret.nodes) =
              {r \in Representatives(graph) : ~DominatedFromOutside(graph, r)}
        /\ ret.edges = {e \in graph.edges : e \subseteq Range(ret.nodes)}

----------------------------------------------------------------------------
(* C6 *)

\* No vertex of G is dominated by another vertex.
NoDominatedVertex(G) ==
    \A v, u \in V(G) :
        u /= v => ~(closed_neighborhood(G, v) \subseteq closed_neighborhood(G, u))

\* G with its vertices in the iteration order s.
Reordered(G, s) == [nodes |-> s, edges |-> G.edges]

\* C6: every maximal sequence of removals of one dominated vertex, whichever
\* dominated vertex each step takes, ends in a graph with as many vertices as
\* completely_pared_graph(G) returns in any iteration order of G, so that
\* is_dismantlable(G) is the same in every iteration order.
C6_VerdictIsOrderIndependent ==
    (op = "dismantle_any_order" /\ NoDominatedVertex(g1)) =>
        \A s \in Perms(order(graph)) :
            order(completely_pared_graph(Reordered(graph, s))) = order(g1)

\* A maximal sequence of removals has ended in other vertices than the ones
\* completely_pared_graph(G) returns.
C6_Witness ==
    /\ op = "dismantle_any_order" /\ NoDominatedVertex(g1)
    /\ order(g1) + 2 <= order(graph)
    /\ V(g1) /= V(completely_pared_graph(graph))

----------------------------------------------------------------------------
(* C7 *)

\* C7: is_dismantlable(G) is true iff completely_pared_graph(G) has exactly
\* one vertex; it is true of every single-vertex graph and false, without a
\* fault, of the zero-vertex graph.
C7_DismantlableIffOneVertexLeft ==
    (op = "is_dismantlable" /\ pc = "done") =>
        /\ ret.tag = "bool"
        /\ ret.val <=> (order(completely_pared_graph(graph)) = 1)
        /\ order(graph) = 1 => ret.val
        /\ order(graph) = 0 => ~ret.val

\* is_dismantlable returned true after vertices were removed.
C7_Witness ==
    /\ op = "is_dismantlable" /\ pc = "done"
    /\ ret.tag = "bool" /\ ret.val
    /\ order(graph) >= 3

----------------------------------------------------------------------------
(* C8 *)

\* C8: twin_classes(G) is a partition of the vertex set into non-empty,
\* pairwise disjoint classes; two vertices are in one class iff their closed
\* neighborhoods are equal; classes, and the members of each class, come in
\* the order in which the iteration over the vertices first meets them.
C8_TwinClassesPartition ==
    (op = "twin_classes" /\ pc = "done") =>
        LET cls == ret.val
            pos(v) == IndexOf(graph.nodes, v)
        IN  /\ \A j \in 1..Len(cls) : Len(cls[j]) > 0 /\ Injective(cls[j])
            /\ \A i, j \in 1..Len(cls) : i /= j => Range(cls[i]) \cap Range(cls[j]) = {}
            /\ UNION {Range(cls[j]) : j \in 1..Len(cls)} = V(graph)
            /\ \A u, v \in V(graph) :
                  (\E j \in 1..Len(cls) : {u, v} \subseteq Range(cls[j]))
                  <=> ({u} \cup Adj(graph, u) = {v} \cup Adj(graph, v))
            /\ \A i, j \in 1..Len(cls) : i < j => pos(cls[i][1]) < pos(cls[j][1])
            /\ \A j \in 1..Len(cls) : \A a, b \in 1..Len(cls[j]) :
                  a < b => pos(cls[j][a]) < pos(cls[j][b])

\* twin_classes returned a class of several vertices after another class.
C8_Witness ==
    /\ op = "twin_classes" /\ pc = "done"
    /\ Len(ret.val) >= 2
    /\ \E j \in 2..Len(ret.val) : Len(ret.val[j]) >= 2

----------------------------------------------------------------------------
(* C9 *)

\* s followed by the next n results of applying pared_graph to its last member.
RECURSIVE ParedSequence(_, _)
ParedSequence(s, n) ==
    IF n = 0 THEN s
    ELSE ParedSequence(Append(s, pared_graph(s[Len(s)])), n - 1)

\* C9: pared_index(G) returns the number n of successive applications of
\* pared_graph that lowered the vertex count before the first one that did
\* not; with return_cp=True the graph returned is the n-fold pared graph of
\* G, and pared_graph leaves its vertex count as it is.
C9_ParedIndexCountsDecreases ==
    (op = "pared_index" /\ pc = "done") =>
        /\ ret.tag = "index"
        /\ \A P \in {ParedSequence(<<graph>>, ret.pi + 1)} :
              \* P[i + 1] is the i-fold pared graph of the input
              /\ \A i \in 1..ret.pi : order(P[i + 1]) < order(P[i])
              /\ order(P[ret.pi + 2]) = order(P[ret.pi + 1])
              /\ ret.g = P[ret.pi + 1]
        /\ order(pared_graph(ret.g)) = order(ret.g)

\* pared_index returned 2 or more.
C9_Witness ==
    /\ op = "pared_index" /\ pc = "done"
    /\ ret.tag = "index" /\ ret.pi >= 2

----------------------------------------------------------------------------
(* C10 *)

\* G is the subgraph of H induced on the vertices of G, in the order of H.
IsInducedSubgraph(G, H) ==
    /\ V(G) \subseteq V(H)
    /\ G.nodes = Filter(H.nodes, V(G))
    /\ G.edges = {e \in H.edges : e \subseteq V(G)}

\* A pass of the loop leaves the vertex count or lowers it by one; it returns
\* iff it leaves it.
CompletelyParedPass ==
    pc = "cp_loop" =>
        /\ IsInducedSubgraph(g1', g1)
        /\ \/ order(g1') = order(g1) /\ pc' = "cp_ret"
           \/ order(g1') = order(g1) - 1 /\ pc' = "cp_loop"

\* C10: the loop of completely_pared_graph(G) terminates: no pass raises the
\* vertex count, a pass that removes a vertex removes one (so at most |V(G)|
\* passes remove one), the first pass that removes nothing ends the loop, and
\* the graph returned is an induced subgraph of G without dominated vertex.
C10_CompletelyParedTerminates ==
    /\ [][CompletelyParedPass]_vars
    /\ [](pc = "cp_loop" => order(graph) - order(g1) \in 0..order(graph))
    /\ [](pc = "cp_ret" => (IsInducedSubgraph(g1, graph) /\ NoDominatedVertex(g1)))
    /\ (pc = "cp_loop") ~> (pc = "cp_ret")

\* completely_pared_graph returned after two or more removals.
C10_Witness ==
    /\ op = "is_dismantlable" /\ pc = "cp_ret"
    /\ order(g1) + 2 <= order(graph)
    /\ order(g1) >= 2

----------------------------------------------------------------------------
(* C11 *)

\* The positions, in iteration order, of the vertices of G that another
\* vertex dominates.
DominatedPositions(G) ==
    {i \in 1..order(G) :
        \E u \in V(G) :
            /\ u /= G.nodes[i]
            /\ closed_neighborhood(G, G.nodes[i]) \subseteq closed_neighborhood(G, u)}

\* R is G without the first vertex, in iteration order, that another vertex
\* dominates and without its edges; R is as G when there is no such vertex.
IsFirstDominatedRemoved(R, G) ==
    IF DominatedPositions(G) = {}
    THEN R.nodes = G.nodes /\ R.edges = G.edges
    ELSE LET x == G.nodes[MinOf(DominatedPositions(G))]
         IN  /\ Range(R.nodes) = V(G) \ {x}
             /\ Len(R.nodes) = order(G) - 1
             /\ R.edges = {e \in G.edges : x \notin e}

\* C11: remove_dominated_vertex(G) returns G with exactly one vertex removed,
\* the first one in iteration order that another vertex dominates, together
\* with its edges, or a copy with the vertices and edges of G when no vertex
\* is dominated; G has the same vertices and edges after the call as before.
C11_RemovesFirstDominatedVertexOnly ==
    [][(pc = "idle" /\ op' = "remove_dominated_vertex") =>
          /\ graph' = graph
          /\ ret'.tag = "graph"
          /\ IsFirstDominatedRemoved(ret', graph)]_vars

\* remove_dominated_vertex removed a vertex that is neither the first in
\* iteration order nor the smallest.
C11_Witness ==
    /\ op = "remove_dominated_vertex" /\ pc = "done"
    /\ order(ret) = order(graph) - 1
    /\ graph.nodes[1] \in Range(ret.nodes)
    /\ 0 \in Range(ret.nodes)
    /\ ret.edges /= graph.edges

----------------------------------------------------------------------------
(* C12 *)

\* The step on which clique_graph gives up under a bound b >= 0.
AbortStep ==
    /\ pc = "cg_loop" /\ pc' = "cg_ret"
    /\ ret' = NoneRet
    /\ bound.fin /\ bound.val >= 0

\* C12: when clique_graph(G, bound=b) aborts for an integer b >= 0 it has
\* pulled exactly b + 1 maximal cliques, the first b + 1 of the enumeration:
\* the test ran after each earlier append (the accumulator held b cliques, one
\* more was appended), the rest of the enumeration is never requested, not
\* after the abort either, and no clique graph was built before None.
C12_AbortPullsBoundPlusOne ==
    [][/\ AbortStep =>
            /\ ret = Pending
            /\ Len(cliques) = bound.val
            /\ Len(cliques') = bound.val + 1
            /\ cliques' = SubSeq(find_cliques(graph), 1, bound.val + 1)
            /\ it_cliques' = SubSeq(find_cliques(graph), bound.val + 2,
                                    Len(find_cliques(graph)))
       /\ (pc = "cg_loop" /\ bound.fin /\ bound.val >= 0) =>
            /\ ret = Pending
            /\ Len(cliques) <= bound.val
            /\ Len(cliques') <= Len(cliques) + 1
       /\ ret = NoneRet =>
            /\ it_cliques' = it_cliques
            /\ cliques' = cliques
            /\ ret' = NoneRet]_vars

\* clique_graph gave up under a bound of at least 1 and left cliques in the
\* enumeration.
C12_Witness ==
    /\ op = "clique_graph" /\ pc = "cg_ret"
    /\ ret = NoneRet
    /\ bound.fin /\ bound.val >= 1
    /\ Len(cliques) = bound.val + 1
    /\ it_cliques /= <<>>

----------------------------------------------------------------------------
(* C13 *)

\* C13: for every graph G the fixed point that pared_index(G, return_cp=True)
\* returns has exactly one vertex iff is_dismantlable(G) is true, that is,
\* iff completely_pared_graph(G) has exactly one vertex.
C13_ParedFixedPointAgreesWithDismantlable ==
    (op = "pared_index" /\ pc = "done") =>
        ((order(ret.g) = 1) <=> (order(completely_pared_graph(graph)) = 1))

\* pared_index needed at least two parings to bring a graph down to one
\* vertex.
C13_Witness ==
    /\ op = "pared_index" /\ pc = "done"
    /\ ret.pi >= 2
    /\ order(ret.g) = 1
    /\ order(completely_pared_graph(graph)) = 1

====
